---- MODULE Spec2Model ----
(***************************************************************************)
(* Model of csv_to_mysql.py: the coordinate validator, the WKT builders    *)
(* prepare_polygon / prepare_point, and the chunked loader import_data.    *)
(*                                                                         *)
(* A Python str is a sequence of one-character strings, so that strip,     *)
(* split, replace and join are computed character by character.  An        *)
(* optional value (None, pandas NaN) is the record None; a present value v *)
(* is Some(v).                                                             *)
(***************************************************************************)
EXTENDS Integers, Sequences, FiniteSets, TLC

VARIABLES
    \* ---- import_data ----
    input,        \* the rows of the CSV file, in file order
    pos,          \* number of rows the chunk iterator has delivered
    pc,           \* position of import_data: "Connecting", then per chunk "Reading",
                  \* "Preparing", "Writing", "Committing" or "RollingBack",
                  \* "Flushing", "Reporting", then "Finally", and "Done" (returned)
                  \* or "Raised" (left by an exception)
    chunk_idx,    \* enumerate() index of the current chunk
    chunk,        \* rows of the current chunk
    row_i,        \* index in chunk of the next row of the iterrows loop
    values,       \* records prepared for the batch insert
    bad_records,  \* rejected polygons of the current chunk
    total_rows, success_rows, failed_rows,
    sink,         \* rows committed to the table
    tx,           \* rows inserted in the open transaction, not yet committed
    bad_file,     \* lines of bad_polygons.csv
    log,          \* what import_data has logged
    attempts,     \* the batches handed to the insert, one entry per run of lines 151-165
    \* ---- a single call of a pure function ----
    fn_pc,        \* "idle" | "call" | "return" | "return2" (second call returned)
    fn_arg,       \* the argument text
    fn_ret        \* the returned value

vars == <<input, pos, pc, chunk_idx, chunk, row_i, values, bad_records,
          total_rows, success_rows, failed_rows, sink, tx, bad_file, log, attempts,
          fn_pc, fn_arg, fn_ret>>

loader_vars == <<input, pos, pc, chunk_idx, chunk, row_i, values, bad_records,
                 total_rows, success_rows, failed_rows, sink, tx, bad_file, log,
                 attempts>>

fn_vars == <<fn_pc, fn_arg, fn_ret>>

\* ------------------------------------------------------------------------
\* Optional values
\* ------------------------------------------------------------------------
None == [some |-> FALSE]
Some(v) == [some |-> TRUE, val |-> v]

\* ------------------------------------------------------------------------
\* str methods
\* ------------------------------------------------------------------------
\* A text is a sequence of characters, each a string.  A character the
\* module can hold stands for itself; any other character is written by its
\* code point, as in "U+2000".
\*
\* The characters str.isspace() accepts, which str.strip() removes and
\* str.split() separates on.
Whitespace ==
    {" ", "\t", "\n", "\r", "\f", "", "", "", "", "", "", " ", " ",
     "U+2000", "U+2001", "U+2002", "U+2003", "U+2004", "U+2005", "U+2006",
     "U+2007", "U+2008", "U+2009", "U+200A", "U+2028", "U+2029", "U+202F",
     "U+205F", "U+3000"}

\* The blanks float() and int() remove at both ends of a text: those of
\* Whitespace but U+001C to U+001F.
NumberBlanks == Whitespace \ {"", "", "", ""}

\* The decimal digits float() and int() accept, by script: each run holds
\* the digits of values 0 to 9 in order.
DigitRuns ==
    <<<<"0", "1", "2", "3", "4", "5", "6", "7", "8", "9">>,
       <<"U+0660", "U+0661", "U+0662", "U+0663", "U+0664", "U+0665", "U+0666", "U+0667", "U+0668", "U+0669">>,
       <<"۰", "۱", "۲", "۳", "۴", "۵", "۶", "۷", "۸", "۹">>,
       <<"߀", "߁", "߂", "߃", "߄", "߅", "߆", "߇", "߈", "߉">>,
       <<"U+0966", "U+0967", "U+0968", "U+0969", "U+096A", "U+096B", "U+096C", "U+096D", "U+096E", "U+096F">>,
       <<"০", "১", "২", "৩", "৪", "৫", "৬", "৭", "৮", "৯">>,
       <<"U+0A66", "U+0A67", "U+0A68", "U+0A69", "U+0A6A", "U+0A6B", "U+0A6C", "U+0A6D", "U+0A6E", "U+0A6F">>,
       <<"૦", "૧", "૨", "૩", "૪", "૫", "૬", "૭", "૮", "૯">>,
       <<"U+0B66", "U+0B67", "U+0B68", "U+0B69", "U+0B6A", "U+0B6B", "U+0B6C", "U+0B6D", "U+0B6E", "U+0B6F">>,
       <<"௦", "௧", "௨", "௩", "௪", "௫", "௬", "௭", "௮", "௯">>,
       <<"U+0C66", "U+0C67", "U+0C68", "U+0C69", "U+0C6A", "U+0C6B", "U+0C6C", "U+0C6D", "U+0C6E", "U+0C6F">>,
       <<"೦", "೧", "೨", "೩", "೪", "೫", "೬", "೭", "೮", "೯">>,
       <<"U+0D66", "U+0D67", "U+0D68", "U+0D69", "U+0D6A", "U+0D6B", "U+0D6C", "U+0D6D", "U+0D6E", "U+0D6F">>,
       <<"෦", "෧", "෨", "෩", "෪", "෫", "෬", "෭", "෮", "෯">>,
       <<"U+0E50", "U+0E51", "U+0E52", "U+0E53", "U+0E54", "U+0E55", "U+0E56", "U+0E57", "U+0E58", "U+0E59">>,
       <<"໐", "໑", "໒", "໓", "໔", "໕", "໖", "໗", "໘", "໙">>,
       <<"U+0F20", "U+0F21", "U+0F22", "U+0F23", "U+0F24", "U+0F25", "U+0F26", "U+0F27", "U+0F28", "U+0F29">>,
       <<"U+1040", "U+1041", "U+1042", "U+1043", "U+1044", "U+1045", "U+1046", "U+1047", "U+1048", "U+1049">>,
       <<"႐", "႑", "႒", "႓", "႔", "႕", "႖", "႗", "႘", "႙">>,
       <<"០", "១", "២", "៣", "៤", "៥", "៦", "៧", "៨", "៩">>,
       <<"U+1810", "U+1811", "U+1812", "U+1813", "U+1814", "U+1815", "U+1816", "U+1817", "U+1818", "U+1819">>,
       <<"U+1946", "U+1947", "U+1948", "U+1949", "U+194A", "U+194B", "U+194C", "U+194D", "U+194E", "U+194F">>,
       <<"᧐", "᧑", "᧒", "᧓", "᧔", "᧕", "᧖", "᧗", "᧘", "᧙">>,
       <<"᪀", "᪁", "᪂", "᪃", "᪄", "᪅", "᪆", "᪇", "᪈", "᪉">>,
       <<"᪐", "᪑", "᪒", "᪓", "᪔", "᪕", "᪖", "᪗", "᪘", "᪙">>,
       <<"U+1B50", "U+1B51", "U+1B52", "U+1B53", "U+1B54", "U+1B55", "U+1B56", "U+1B57", "U+1B58", "U+1B59">>,
       <<"᮰", "᮱", "᮲", "᮳", "᮴", "᮵", "᮶", "᮷", "᮸", "᮹">>,
       <<"U+1C40", "U+1C41", "U+1C42", "U+1C43", "U+1C44", "U+1C45", "U+1C46", "U+1C47", "U+1C48", "U+1C49">>,
       <<"U+1C50", "U+1C51", "U+1C52", "U+1C53", "U+1C54", "U+1C55", "U+1C56", "U+1C57", "U+1C58", "U+1C59">>,
       <<"U+A620", "U+A621", "U+A622", "U+A623", "U+A624", "U+A625", "U+A626", "U+A627", "U+A628", "U+A629">>,
       <<"꣐", "꣑", "꣒", "꣓", "꣔", "꣕", "꣖", "꣗", "꣘", "꣙">>,
       <<"U+A900", "U+A901", "U+A902", "U+A903", "U+A904", "U+A905", "U+A906", "U+A907", "U+A908", "U+A909">>,
       <<"꧐", "꧑", "꧒", "꧓", "꧔", "꧕", "꧖", "꧗", "꧘", "꧙">>,
       <<"꧰", "꧱", "꧲", "꧳", "꧴", "꧵", "꧶", "꧷", "꧸", "꧹">>,
       <<"U+AA50", "U+AA51", "U+AA52", "U+AA53", "U+AA54", "U+AA55", "U+AA56", "U+AA57", "U+AA58", "U+AA59">>,
       <<"꯰", "꯱", "꯲", "꯳", "꯴", "꯵", "꯶", "꯷", "꯸", "꯹">>,
       <<"U+FF10", "U+FF11", "U+FF12", "U+FF13", "U+FF14", "U+FF15", "U+FF16", "U+FF17", "U+FF18", "U+FF19">>,
       <<"U+104A0", "U+104A1", "U+104A2", "U+104A3", "U+104A4", "U+104A5", "U+104A6", "U+104A7", "U+104A8", "U+104A9">>,
       <<"U+10D30", "U+10D31", "U+10D32", "U+10D33", "U+10D34", "U+10D35", "U+10D36", "U+10D37", "U+10D38", "U+10D39">>,
       <<"U+11066", "U+11067", "U+11068", "U+11069", "U+1106A", "U+1106B", "U+1106C", "U+1106D", "U+1106E", "U+1106F">>,
       <<"U+110F0", "U+110F1", "U+110F2", "U+110F3", "U+110F4", "U+110F5", "U+110F6", "U+110F7", "U+110F8", "U+110F9">>,
       <<"U+11136", "U+11137", "U+11138", "U+11139", "U+1113A", "U+1113B", "U+1113C", "U+1113D", "U+1113E", "U+1113F">>,
       <<"U+111D0", "U+111D1", "U+111D2", "U+111D3", "U+111D4", "U+111D5", "U+111D6", "U+111D7", "U+111D8", "U+111D9">>,
       <<"U+112F0", "U+112F1", "U+112F2", "U+112F3", "U+112F4", "U+112F5", "U+112F6", "U+112F7", "U+112F8", "U+112F9">>,
       <<"U+11450", "U+11451", "U+11452", "U+11453", "U+11454", "U+11455", "U+11456", "U+11457", "U+11458", "U+11459">>,
       <<"U+114D0", "U+114D1", "U+114D2", "U+114D3", "U+114D4", "U+114D5", "U+114D6", "U+114D7", "U+114D8", "U+114D9">>,
       <<"U+11650", "U+11651", "U+11652", "U+11653", "U+11654", "U+11655", "U+11656", "U+11657", "U+11658", "U+11659">>,
       <<"U+116C0", "U+116C1", "U+116C2", "U+116C3", "U+116C4", "U+116C5", "U+116C6", "U+116C7", "U+116C8", "U+116C9">>,
       <<"U+11730", "U+11731", "U+11732", "U+11733", "U+11734", "U+11735", "U+11736", "U+11737", "U+11738", "U+11739">>,
       <<"U+118E0", "U+118E1", "U+118E2", "U+118E3", "U+118E4", "U+118E5", "U+118E6", "U+118E7", "U+118E8", "U+118E9">>,
       <<"U+11950", "U+11951", "U+11952", "U+11953", "U+11954", "U+11955", "U+11956", "U+11957", "U+11958", "U+11959">>,
       <<"U+11C50", "U+11C51", "U+11C52", "U+11C53", "U+11C54", "U+11C55", "U+11C56", "U+11C57", "U+11C58", "U+11C59">>,
       <<"U+11D50", "U+11D51", "U+11D52", "U+11D53", "U+11D54", "U+11D55", "U+11D56", "U+11D57", "U+11D58", "U+11D59">>,
       <<"U+11DA0", "U+11DA1", "U+11DA2", "U+11DA3", "U+11DA4", "U+11DA5", "U+11DA6", "U+11DA7", "U+11DA8", "U+11DA9">>,
       <<"U+16A60", "U+16A61", "U+16A62", "U+16A63", "U+16A64", "U+16A65", "U+16A66", "U+16A67", "U+16A68", "U+16A69">>,
       <<"U+16AC0", "U+16AC1", "U+16AC2", "U+16AC3", "U+16AC4", "U+16AC5", "U+16AC6", "U+16AC7", "U+16AC8", "U+16AC9">>,
       <<"U+16B50", "U+16B51", "U+16B52", "U+16B53", "U+16B54", "U+16B55", "U+16B56", "U+16B57", "U+16B58", "U+16B59">>,
       <<"U+1D7CE", "U+1D7CF", "U+1D7D0", "U+1D7D1", "U+1D7D2", "U+1D7D3", "U+1D7D4", "U+1D7D5", "U+1D7D6", "U+1D7D7">>,
       <<"U+1D7D8", "U+1D7D9", "U+1D7DA", "U+1D7DB", "U+1D7DC", "U+1D7DD", "U+1D7DE", "U+1D7DF", "U+1D7E0", "U+1D7E1">>,
       <<"U+1D7E2", "U+1D7E3", "U+1D7E4", "U+1D7E5", "U+1D7E6", "U+1D7E7", "U+1D7E8", "U+1D7E9", "U+1D7EA", "U+1D7EB">>,
       <<"U+1D7EC", "U+1D7ED", "U+1D7EE", "U+1D7EF", "U+1D7F0", "U+1D7F1", "U+1D7F2", "U+1D7F3", "U+1D7F4", "U+1D7F5">>,
       <<"U+1D7F6", "U+1D7F7", "U+1D7F8", "U+1D7F9", "U+1D7FA", "U+1D7FB", "U+1D7FC", "U+1D7FD", "U+1D7FE", "U+1D7FF">>,
       <<"U+1E140", "U+1E141", "U+1E142", "U+1E143", "U+1E144", "U+1E145", "U+1E146", "U+1E147", "U+1E148", "U+1E149">>,
       <<"U+1E2F0", "U+1E2F1", "U+1E2F2", "U+1E2F3", "U+1E2F4", "U+1E2F5", "U+1E2F6", "U+1E2F7", "U+1E2F8", "U+1E2F9">>,
       <<"U+1E950", "U+1E951", "U+1E952", "U+1E953", "U+1E954", "U+1E955", "U+1E956", "U+1E957", "U+1E958", "U+1E959">>,
       <<"U+1FBF0", "U+1FBF1", "U+1FBF2", "U+1FBF3", "U+1FBF4", "U+1FBF5", "U+1FBF6", "U+1FBF7", "U+1FBF8", "U+1FBF9">>>>

Digits == UNION { {run[k] : k \in 1..10} : run \in {DigitRuns[r] : r \in 1..Len(DigitRuns)} }

AsciiDigits == DigitRuns[1]

UpperCase == <<"A","B","C","D","E","F","G","H","I","J","K","L","M",
               "N","O","P","Q","R","S","T","U","V","W","X","Y","Z">>
LowerCase == <<"a","b","c","d","e","f","g","h","i","j","k","l","m",
               "n","o","p","q","r","s","t","u","v","w","x","y","z">>

LowerChar(c) ==
    IF \E k \in 1..26 : UpperCase[k] = c
    THEN LowerCase[CHOOSE k \in 1..26 : UpperCase[k] = c]
    ELSE c

Lower(s) == [k \in 1..Len(s) |-> LowerChar(s[k])]

RECURSIVE LStrip(_)
LStrip(s) ==
    IF s # <<>> /\ Head(s) \in Whitespace THEN LStrip(Tail(s)) ELSE s

RECURSIVE RStrip(_)
RStrip(s) ==
    IF s # <<>> /\ s[Len(s)] \in Whitespace
    THEN RStrip(SubSeq(s, 1, Len(s) - 1))
    ELSE s

\* s.strip()
Strip(s) == RStrip(LStrip(s))

\* s.replace(ch, "")
Remove(s, ch) == SelectSeq(s, LAMBDA c : c # ch)

\* s.split(sep): the pieces between the separators, empty pieces kept
RECURSIVE SplitOn(_, _)
SplitOn(s, sep) ==
    IF \A k \in 1..Len(s) : s[k] # sep
    THEN <<s>>
    ELSE LET k == CHOOSE k \in 1..Len(s) :
                     s[k] = sep /\ \A j \in 1..(k - 1) : s[j] # sep
         IN  <<SubSeq(s, 1, k - 1)>> \o SplitOn(SubSeq(s, k + 1, Len(s)), sep)

\* s.split(): the maximal runs of non-whitespace characters
RECURSIVE SplitWs(_)
SplitWs(s) ==
    LET t == LStrip(s)
    IN  IF t = <<>>
        THEN <<>>
        ELSE LET ends == {k \in 1..Len(t) : t[k] \in Whitespace}
                 n == IF ends = {} THEN Len(t) + 1
                      ELSE CHOOSE k \in ends : \A j \in ends : k <= j
             IN  <<SubSeq(t, 1, n - 1)>> \o SplitWs(SubSeq(t, n, Len(t)))

\* sep.join(parts)
RECURSIVE Join(_, _)
Join(parts, sep) ==
    IF parts = <<>> THEN <<>>
    ELSE IF Len(parts) = 1 THEN parts[1]
    ELSE parts[1] \o <<sep>> \o Join(Tail(parts), sep)

\* ------------------------------------------------------------------------
\* float(str) and int(str): which texts convert, and which raise ValueError
\* ------------------------------------------------------------------------
\* s without the blanks float() and int() remove at its ends
NumberStrip(s) ==
    LET kept == {k \in 1..Len(s) : s[k] \notin NumberBlanks}
    IN  IF kept = {}
        THEN <<>>
        ELSE SubSeq(s, CHOOSE k \in kept : \A j \in kept : k <= j,
                       CHOOSE k \in kept : \A j \in kept : j <= k)

\* digit (["_"] digit)*
DigitPart(s) ==
    /\ s # <<>>
    /\ \A k \in 1..Len(s) : s[k] \in Digits \/ s[k] = "_"
    /\ s[1] \in Digits
    /\ s[Len(s)] \in Digits
    /\ \A k \in 1..(Len(s) - 1) : ~(s[k] = "_" /\ s[k + 1] = "_")

Unsigned(s) ==
    IF s # <<>> /\ s[1] \in {"+", "-"} THEN Tail(s) ELSE s

\* digitpart ["." [digitpart]] | "." digitpart
Mantissa(s) ==
    LET parts == SplitOn(s, ".")
    IN  \/ Len(parts) = 1 /\ DigitPart(parts[1])
        \/ /\ Len(parts) = 2
           /\ parts[1] # <<>> \/ parts[2] # <<>>
           /\ parts[1] = <<>> \/ DigitPart(parts[1])
           /\ parts[2] = <<>> \/ DigitPart(parts[2])

\* mantissa [("e" | "E") ["+" | "-"] digitpart]
Decimal(s) ==
    LET parts == SplitOn(Lower(s), "e")
    IN  \/ Len(parts) = 1 /\ Mantissa(parts[1])
        \/ Len(parts) = 2 /\ Mantissa(parts[1]) /\ DigitPart(Unsigned(parts[2]))

NonFiniteWords == { <<"n","a","n">>, <<"i","n","f">>,
                    <<"i","n","f","i","n","i","t","y">> }

\* float(s) returns a value (TRUE) or raises ValueError (FALSE)
FloatParses(s) ==
    LET body == Unsigned(NumberStrip(s))
    IN  Lower(body) \in NonFiniteWords \/ Decimal(body)

\* sys.get_int_max_str_digits(): int() of a text with more digits raises
IntMaxStrDigits == 4300

\* int(s) returns a value (TRUE) or raises ValueError (FALSE)
IntParses(s) ==
    LET body == Unsigned(NumberStrip(s))
    IN  /\ DigitPart(body)
        /\ Len(Remove(body, "_")) <= IntMaxStrDigits

\* the value of a digit, 0 to 9
DigitValue(c) ==
    CHOOSE d \in 0..9 : \E r \in 1..Len(DigitRuns) : DigitRuns[r][d + 1] = c

\* An int has no width; its value is written as its decimal text, as str()
\* prints it: "-" if negative, then the digits without leading zeros.
\* The value of the digits s; the empty text has the value 0.
DigitsValue(s) ==
    LET ascii == [k \in 1..Len(s) |-> AsciiDigits[DigitValue(s[k]) + 1]]
        nonzero == {k \in 1..Len(s) : ascii[k] # "0"}
    IN  IF nonzero = {}
        THEN <<"0">>
        ELSE SubSeq(ascii, CHOOSE k \in nonzero : \A j \in nonzero : k <= j, Len(s))

\* the value of int(s) when it parses
IntValue(s) ==
    LET t == NumberStrip(s)
        n == DigitsValue(Remove(Unsigned(t), "_"))
    IN  IF t # <<>> /\ t[1] = "-" /\ n # <<"0">> THEN <<"-">> \o n ELSE n

\* ------------------------------------------------------------------------
\* validate_coordinate, prepare_polygon, prepare_point
\* ------------------------------------------------------------------------
validate_coordinate(coord_str) ==
    LET parts == SplitWs(Strip(coord_str))
    IN  IF Len(parts) # 2
        THEN FALSE
        ELSE FloatParses(parts[1]) /\ FloatParses(parts[2])

\* CleanStr removing the square brackets only
CleanStr_SquareOnly(polygon_str) ==
    Remove(Remove(Strip(polygon_str), "["), "]")

\* clean_str: brackets removed from the stripped text
CleanStr(polygon_str) ==
    Remove(Remove(Remove(Remove(Strip(polygon_str), "("), ")"), "["), "]")

\* the loop over clean_str.split(","): the stripped tokens that validate
RECURSIVE CollectCoords(_)
CollectCoords(tokens) ==
    IF tokens = <<>> THEN <<>>
    ELSE LET coord == Strip(Head(tokens))
         IN  IF validate_coordinate(coord)
             THEN <<coord>> \o CollectCoords(Tail(tokens))
             ELSE CollectCoords(Tail(tokens))

PolygonPrefix == <<"P","O","L","Y","G","O","N","(","(">>
PolygonSuffix == <<")",")">>
PointPrefix == <<"P","O","I","N","T","(">>
PointSuffix == <<")">>

\* prepare_polygon without the check that follows the closing of the ring
prepare_polygon_NoRecheck(polygon_str) ==
    IF polygon_str = <<>>
    THEN None
    ELSE LET coords == CollectCoords(SplitOn(CleanStr(polygon_str), ","))
         IN  IF Len(coords) < 3
             THEN None
             ELSE LET closed == IF coords[1] # coords[Len(coords)]
                                THEN Append(coords, coords[1])
                                ELSE coords
                  IN  Some(PolygonPrefix \o Join(closed, ",") \o PolygonSuffix)

\* prepare_polygon appending the first coordinate whether or not the ring
\* is closed already
prepare_polygon_AlwaysAppend(polygon_str) ==
    IF polygon_str = <<>>
    THEN None
    ELSE LET coords == CollectCoords(SplitOn(CleanStr(polygon_str), ","))
         IN  IF Len(coords) < 3
             THEN None
             ELSE LET closed == Append(coords, coords[1])
                  IN  IF Len(closed) < 4
                      THEN None
                      ELSE Some(PolygonPrefix \o Join(closed, ",") \o PolygonSuffix)

prepare_polygon(polygon_str) ==
    IF polygon_str = <<>>
    THEN None
    ELSE LET coords == CollectCoords(SplitOn(CleanStr(polygon_str), ","))
         IN  IF Len(coords) < 3
             THEN None
             ELSE LET closed == IF coords[1] # coords[Len(coords)]
                                THEN Append(coords, coords[1])
                                ELSE coords
                  IN  IF Len(closed) < 4
                      THEN None
                      ELSE Some(PolygonPrefix \o Join(closed, ",") \o PolygonSuffix)

prepare_point(point_str) ==
    IF point_str = <<>>
    THEN None
    ELSE IF validate_coordinate(point_str)
         THEN Some(PointPrefix \o point_str \o PointSuffix)
         ELSE None

\* ------------------------------------------------------------------------
\* The CSV file: rows of cells.  A cell is None (pandas NaN) or Some(text).
\* ------------------------------------------------------------------------
CHUNKSIZE == 3      \* rows per chunk (scaled down)
MaxRows == 4        \* longest input file, in rows

T(c) == Some(<<c>>)

\* A cell as read_csv delivers it: None is NaN, Some(text) is a str cell or
\* an int64 cell written as its decimal text (int() and str() give the same
\* for both), Float(text) is a float64 cell written as str() prints it,
\* without exponent.
Float(text) == [some |-> TRUE, val |-> text, dtype |-> "float64"]

IsFloat(cell) == "dtype" \in DOMAIN cell

OpenRing == Some(<<"1"," ","1",",","2"," ","2",",","3"," ","3">>)
TwoPoints == Some(<<"1"," ","1",",","2"," ","2">>)
ClosedPair == Some(<<"1"," ","1",",","2"," ","2",",","1"," ","1">>)

Row(id, pid, deep, geo, polygon) ==
    [id |-> id, pid |-> pid, deep |-> deep, name |-> T("a"), ext_path |-> T("a"),
     geo |-> geo, polygon |-> polygon]

\* the rows an input file is made of: clean rows, rows whose polygon does
\* or does not normalize, and rows whose id, pid or deep is not an integer
RowSet ==
    { Row(T("1"), T("0"), T("0"), Some(<<"1"," ","2">>), None),
      Row(T("2"), Float(<<"1",".","5">>), T("1"), None, OpenRing),
      Row(T("3"), T("1"), T("1"), T("x"), TwoPoints),
      Row(T("x"), T("1"), T("1"), None, TwoPoints),
      Row(T("5"), None, T("1"), None, OpenRing),
      Row(T("6"), T("1"), T("1"), None, T("x")),
      Row(T("7"), T("1"), T("x"), None, TwoPoints),
      Row(T("8"), T("1"), T("1"), None, ClosedPair) }

\* the files: 1 to MaxRows rows of RowSet in any order, no row twice, so
\* that a record of the table and a line of bad_polygons.csv tell which row
\* of the file they come from
Inputs ==
    { file \in UNION { [1..n -> RowSet] : n \in 1..MaxRows } :
          \A i, j \in 1..Len(file) : file[i] = file[j] => i = j }

Min(a, b) == IF a <= b THEN a ELSE b

\* pd.notna(cell)
notna(cell) == cell.some

\* str(cell)
StrOf(cell) == IF cell.some THEN cell.val ELSE <<"n","a","n">>

\* int(cell) returns a value (TRUE) or raises (FALSE): int() of NaN and of
\* an infinite float raises, int() of a finite float truncates, int() of a
\* str parses it
IntCoerces(cell) ==
    /\ cell.some
    /\ IF IsFloat(cell)
       THEN Lower(Unsigned(cell.val)) \notin NonFiniteWords
       ELSE IntParses(cell.val)

\* the value int(cell) returns
IntOf(cell) ==
    IF IsFloat(cell)
    THEN IntValue(SplitOn(cell.val, ".")[1])
    ELSE IntValue(cell.val)

\* the three int() conversions of the record literal
Coerces(row) == IntCoerces(row.id) /\ IntCoerces(row.pid) /\ IntCoerces(row.deep)

PointWkt(row) == IF notna(row.geo) THEN prepare_point(StrOf(row.geo)) ELSE None

PolygonWkt(row) ==
    IF notna(row.polygon) THEN prepare_polygon(StrOf(row.polygon)) ELSE None

\* the record dict built from a row whose conversions succeed
Record(row) ==
    [id |-> IntOf(row.id), pid |-> IntOf(row.pid),
     deep |-> IntOf(row.deep), name |-> StrOf(row.name),
     ext_path |-> StrOf(row.ext_path), geo |-> PointWkt(row),
     polygon |-> PolygonWkt(row)]

\* the bad_records entry of a row
BadRecord(row) ==
    [id |-> row.id, reason |-> "Invalid polygon format", data |-> row.polygon]

\* pd.notna(row['polygon']) and not polygon_wkt
IsBadPolygon(row) == notna(row.polygon) /\ ~PolygonWkt(row).some

\* What the loop body computes for a row depends on the row alone; it is
\* tabulated once over RowSet.
RowOutcome ==
    [r \in RowSet |->
        [coerces |-> Coerces(r),
         record |-> IF Coerces(r) THEN Record(r) ELSE None,
         bad_polygon |-> IsBadPolygon(r)]]

\* the line written to bad_polygons.csv for a bad_records entry
BadLine(rec) == <<rec.id.val, rec.reason, rec.data.val>>

BadLines(recs) == [k \in 1..Len(recs) |-> BadLine(recs[k])]

\* what a write that fails part way leaves of a line: some of its bytes, at
\* least one and not all; the number of bytes is not modelled
Fragment(line) == <<"fragment", line>>

\* what the file system can have accepted of lines when the append raises:
\* n whole lines, n below the number of lines, then nothing or a fragment
\* of the next line
CutLines(lines) ==
    { SubSeq(lines, 1, n) : n \in 0..(Len(lines) - 1) }
    \cup { Append(SubSeq(lines, 1, n), Fragment(lines[n + 1])) : n \in 0..(Len(lines) - 1) }

\* ------------------------------------------------------------------------
\* import_data
\* ------------------------------------------------------------------------
Init ==
    /\ input \in Inputs
    /\ pos = 0
    /\ pc = "Connecting"
    /\ chunk_idx = -1
    /\ chunk = <<>>
    /\ row_i = 1
    /\ values = <<>>
    /\ bad_records = <<>>
    /\ total_rows = 0
    /\ success_rows = 0
    /\ failed_rows = 0
    /\ sink = <<>>
    /\ tx = <<>>
    /\ bad_file = <<>>
    /\ log = <<>>
    /\ attempts = <<>>
    /\ fn_pc = "idle"
    /\ fn_arg = <<>>
    /\ fn_ret = None

\* create_engine returns; start_time and the three counters are set and the
\* try statement is entered
CreateEngine ==
    /\ pc = "Connecting"
    /\ total_rows' = 0
    /\ success_rows' = 0
    /\ failed_rows' = 0
    /\ pc' = "Reading"
    /\ UNCHANGED <<input, tx, attempts, pos, chunk_idx, chunk, row_i, values, bad_records,
                   sink, bad_file, log>>
    /\ UNCHANGED fn_vars

\* create_engine raises (the URL does not parse, the driver is missing):
\* the call is before the try statement, the exception leaves import_data
\* and nothing is logged
CreateEngineFault ==
    /\ pc = "Connecting"
    /\ pc' = "Raised"
    /\ UNCHANGED <<input, tx, attempts, pos, chunk_idx, chunk, row_i, values, bad_records,
                   total_rows, success_rows, failed_rows, sink, bad_file, log>>
    /\ UNCHANGED fn_vars

\* StreamFault with a handler that undoes the chunks written so far
StreamFault_Rollback ==
    /\ pc = "Reading"
    /\ log' = Append(log, [kind |-> "critical", cause |-> "stream"])
    /\ sink' = <<>>
    /\ success_rows' = 0
    /\ pc' = "Finally"
    /\ UNCHANGED <<input, tx, attempts, pos, chunk_idx, chunk, row_i, values, bad_records,
                   total_rows, failed_rows, bad_file>>
    /\ UNCHANGED fn_vars

\* ReadChunk with an iterator that drops the row after each chunk
ReadChunk_SkipsRow ==
    /\ pc = "Reading"
    /\ pos < Len(input)
    /\ chunk' = SubSeq(input, pos + 1, Min(pos + CHUNKSIZE, Len(input)))
    /\ pos' = Min(pos + CHUNKSIZE + 1, Len(input))
    /\ chunk_idx' = chunk_idx + 1
    /\ values' = <<>>
    /\ bad_records' = <<>>
    /\ row_i' = 1
    /\ pc' = "Preparing"
    /\ UNCHANGED <<input, tx, attempts, total_rows, success_rows, failed_rows, sink, bad_file, log>>
    /\ UNCHANGED fn_vars

\* the chunk iterator delivers the next chunk; the loop body starts
ReadChunk ==
    /\ pc = "Reading"
    /\ pos < Len(input)
    /\ chunk' = SubSeq(input, pos + 1, Min(pos + CHUNKSIZE, Len(input)))
    /\ pos' = Min(pos + CHUNKSIZE, Len(input))
    /\ chunk_idx' = chunk_idx + 1
    /\ values' = <<>>
    /\ bad_records' = <<>>
    /\ row_i' = 1
    /\ pc' = "Preparing"
    /\ UNCHANGED <<input, tx, attempts, total_rows, success_rows, failed_rows, sink, bad_file, log>>
    /\ UNCHANGED fn_vars

\* the chunk iterator is exhausted: the for loop ends
StreamExhausted ==
    /\ pc = "Reading"
    /\ pos = Len(input)
    /\ pc' = "Finally"
    /\ UNCHANGED <<input, tx, attempts, pos, chunk_idx, chunk, row_i, values, bad_records,
                   total_rows, success_rows, failed_rows, sink, bad_file, log>>
    /\ UNCHANGED fn_vars

\* the chunk iterator raises: the outer except logs it
StreamFault ==
    /\ pc = "Reading"
    /\ log' = Append(log, [kind |-> "critical", cause |-> "stream"])
    /\ pc' = "Finally"
    /\ UNCHANGED <<input, tx, attempts, pos, chunk_idx, chunk, row_i, values, bad_records,
                   total_rows, success_rows, failed_rows, sink, bad_file>>
    /\ UNCHANGED fn_vars

\* PrepareRow recording the rejected polygon before the int() conversions
PrepareRow_RejectBeforeCoercion ==
    /\ pc = "Preparing"
    /\ row_i <= Len(chunk)
    /\ LET row == chunk[row_i]
           out == RowOutcome[row]
       IN  /\ bad_records' = IF out.bad_polygon
                             THEN Append(bad_records, BadRecord(row))
                             ELSE bad_records
           /\ IF out.coerces
              THEN /\ values' = Append(values, out.record)
                   /\ UNCHANGED <<failed_rows, log>>
              ELSE /\ log' = Append(log, [kind |-> "error", cause |-> "row"])
                   /\ failed_rows' = failed_rows + 1
                   /\ UNCHANGED values
    /\ row_i' = row_i + 1
    /\ pc' = IF row_i = Len(chunk) THEN "Writing" ELSE "Preparing"
    /\ UNCHANGED <<input, tx, attempts, pos, chunk_idx, chunk, total_rows, success_rows, sink, bad_file>>
    /\ UNCHANGED fn_vars

\* PrepareRow dropping a row whose polygon is rejected
PrepareRow_DropRejected ==
    /\ pc = "Preparing"
    /\ row_i <= Len(chunk)
    /\ LET row == chunk[row_i]
           out == RowOutcome[row]
       IN  IF out.coerces
           THEN /\ bad_records' = IF out.bad_polygon
                                  THEN Append(bad_records, BadRecord(row))
                                  ELSE bad_records
                /\ values' = IF out.bad_polygon
                             THEN values
                             ELSE Append(values, out.record)
                /\ UNCHANGED <<failed_rows, log>>
           ELSE /\ log' = Append(log, [kind |-> "error", cause |-> "row"])
                /\ failed_rows' = failed_rows + 1
                /\ UNCHANGED <<values, bad_records>>
    /\ row_i' = row_i + 1
    /\ pc' = IF row_i = Len(chunk) THEN "Writing" ELSE "Preparing"
    /\ UNCHANGED <<input, tx, attempts, pos, chunk_idx, chunk, total_rows, success_rows, sink, bad_file>>
    /\ UNCHANGED fn_vars

\* PrepareRow with the batch insert inside the iterrows loop: the write
\* follows the first row
PrepareRow_WriteInsideLoop ==
    /\ pc = "Preparing"
    /\ row_i <= Len(chunk)
    /\ LET row == chunk[row_i]
           out == RowOutcome[row]
       IN  IF out.coerces
           THEN /\ bad_records' = IF out.bad_polygon
                                  THEN Append(bad_records, BadRecord(row))
                                  ELSE bad_records
                /\ values' = Append(values, out.record)
                /\ UNCHANGED <<failed_rows, log>>
           ELSE /\ log' = Append(log, [kind |-> "error", cause |-> "row"])
                /\ failed_rows' = failed_rows + 1
                /\ UNCHANGED <<values, bad_records>>
    /\ row_i' = row_i + 1
    /\ pc' = "Writing"
    /\ UNCHANGED <<input, tx, attempts, pos, chunk_idx, chunk, total_rows, success_rows, sink, bad_file>>
    /\ UNCHANGED fn_vars

\* one iteration of the iterrows loop
PrepareRow ==
    /\ pc = "Preparing"
    /\ row_i <= Len(chunk)
    /\ LET row == chunk[row_i]
           out == RowOutcome[row]
       IN  IF out.coerces
           THEN /\ bad_records' = IF out.bad_polygon
                                  THEN Append(bad_records, BadRecord(row))
                                  ELSE bad_records
                /\ values' = Append(values, out.record)
                /\ UNCHANGED <<failed_rows, log>>
           ELSE /\ log' = Append(log, [kind |-> "error", cause |-> "row"])
                /\ failed_rows' = failed_rows + 1
                /\ UNCHANGED <<values, bad_records>>
    /\ row_i' = row_i + 1
    /\ pc' = IF row_i = Len(chunk) THEN "Writing" ELSE "Preparing"
    /\ UNCHANGED <<input, tx, attempts, pos, chunk_idx, chunk, total_rows, success_rows, sink, bad_file>>
    /\ UNCHANGED fn_vars

\* if values: is false
SkipWrite ==
    /\ pc = "Writing"
    /\ values = <<>>
    /\ pc' = "Flushing"
    /\ UNCHANGED <<input, tx, attempts, pos, chunk_idx, chunk, row_i, values, bad_records,
                   total_rows, success_rows, failed_rows, sink, bad_file, log>>
    /\ UNCHANGED fn_vars

\* engine.begin() opens a transaction and conn.execute sends the records
\* of values, all of them, in one call (lines 151-165)
WriteExecute ==
    /\ pc = "Writing"
    /\ values # <<>>
    /\ tx' = values
    /\ attempts' = Append(attempts, [batch |-> chunk_idx, rows |-> values])
    /\ pc' = "Committing"
    /\ UNCHANGED <<input, pos, chunk_idx, chunk, row_i, values, bad_records,
                   total_rows, success_rows, failed_rows, sink, bad_file, log>>
    /\ UNCHANGED fn_vars

\* engine.begin() or conn.execute raises: the transaction then holds the
\* rows the table took before the fault, none (no connection) up to all of
\* them
WriteExecuteRaises ==
    /\ pc = "Writing"
    /\ values # <<>>
    /\ \E n \in 0..Len(values) : tx' = SubSeq(values, 1, n)
    /\ attempts' = Append(attempts, [batch |-> chunk_idx, rows |-> values])
    /\ pc' = "RollingBack"
    /\ UNCHANGED <<input, pos, chunk_idx, chunk, row_i, values, bad_records,
                   total_rows, success_rows, failed_rows, sink, bad_file, log>>
    /\ UNCHANGED fn_vars

\* line 166, then the with block ends and the transaction commits
WriteCommitted ==
    /\ pc = "Committing"
    /\ success_rows' = success_rows + Len(values)
    /\ sink' = sink \o tx
    /\ tx' = <<>>
    /\ pc' = "Flushing"
    /\ UNCHANGED <<input, attempts, pos, chunk_idx, chunk, row_i, values, bad_records,
                   total_rows, failed_rows, bad_file, log>>
    /\ UNCHANGED fn_vars

\* WriteExecuteFault with a retry of the insert in the except branch: the
\* second try commits
WriteExecuteFault_Retry ==
    /\ pc = "RollingBack"
    /\ tx' = <<>>
    /\ log' = Append(log, [kind |-> "error", cause |-> "batch"])
    /\ success_rows' = success_rows + Len(values)
    /\ sink' = sink \o values
    /\ attempts' = Append(attempts, [batch |-> chunk_idx, rows |-> values])
    /\ pc' = "Flushing"
    /\ UNCHANGED <<input, pos, chunk_idx, chunk, row_i, values, bad_records,
                   total_rows, failed_rows, bad_file>>
    /\ UNCHANGED fn_vars

\* the exception of engine.begin() or conn.execute leaves the with block,
\* which rolls the transaction back, and the except branch runs (167-169)
WriteExecuteFault ==
    /\ pc = "RollingBack"
    /\ tx' = <<>>
    /\ log' = Append(log, [kind |-> "error", cause |-> "batch"])
    /\ failed_rows' = failed_rows + Len(values)
    /\ pc' = "Flushing"
    /\ UNCHANGED <<input, attempts, pos, chunk_idx, chunk, row_i, values, bad_records,
                   total_rows, success_rows, sink, bad_file>>
    /\ UNCHANGED fn_vars

\* line 166 increases success_rows, then the commit at the end of the with
\* block raises: nothing is committed and the except branch runs
WriteCommitFault ==
    /\ pc = "Committing"
    /\ success_rows' = success_rows + Len(values)
    /\ tx' = <<>>
    /\ log' = Append(log, [kind |-> "error", cause |-> "batch"])
    /\ failed_rows' = failed_rows + Len(values)
    /\ pc' = "Flushing"
    /\ UNCHANGED <<input, attempts, pos, chunk_idx, chunk, row_i, values, bad_records,
                   total_rows, sink, bad_file>>
    /\ UNCHANGED fn_vars

\* if bad_records: is false
SkipFlush ==
    /\ pc = "Flushing"
    /\ bad_records = <<>>
    /\ pc' = "Reporting"
    /\ UNCHANGED <<input, tx, attempts, pos, chunk_idx, chunk, row_i, values, bad_records,
                   total_rows, success_rows, failed_rows, sink, bad_file, log>>
    /\ UNCHANGED fn_vars

\* FlushBadRecords with the file opened in mode 'w'
FlushBadRecords_Truncate ==
    /\ pc = "Flushing"
    /\ bad_records # <<>>
    /\ bad_file' = BadLines(bad_records)
    /\ pc' = "Reporting"
    /\ UNCHANGED <<input, tx, attempts, pos, chunk_idx, chunk, row_i, values, bad_records,
                   total_rows, success_rows, failed_rows, sink, log>>
    /\ UNCHANGED fn_vars

\* every bad_records entry is appended to bad_polygons.csv
FlushBadRecords ==
    /\ pc = "Flushing"
    /\ bad_records # <<>>
    /\ bad_file' = bad_file \o BadLines(bad_records)
    /\ pc' = "Reporting"
    /\ UNCHANGED <<input, tx, attempts, pos, chunk_idx, chunk, row_i, values, bad_records,
                   total_rows, success_rows, failed_rows, sink, log>>
    /\ UNCHANGED fn_vars

\* open(), a write or the flush at the end of the with block raises: the
\* file keeps the bytes accepted so far, whole lines and possibly a piece
\* of the next one, and nothing catches the exception before the outer
\* except
FlushFault ==
    /\ pc = "Flushing"
    /\ bad_records # <<>>
    /\ \E written \in CutLines(BadLines(bad_records)) :
           bad_file' = bad_file \o written
    /\ log' = Append(log, [kind |-> "critical", cause |-> "append"])
    /\ pc' = "Finally"
    /\ UNCHANGED <<input, tx, attempts, pos, chunk_idx, chunk, row_i, values, bad_records,
                   total_rows, success_rows, failed_rows, sink>>
    /\ UNCHANGED fn_vars

\* the progress report of the chunk
Report ==
    /\ pc = "Reporting"
    /\ total_rows' = total_rows + Len(chunk)
    /\ log' = Append(log, [kind |-> "progress", batch |-> chunk_idx + 1,
                           ok |-> Len(values), failed |-> Len(chunk) - Len(values)])
    /\ pc' = "Reading"
    /\ UNCHANGED <<input, tx, attempts, pos, chunk_idx, chunk, row_i, values, bad_records,
                   success_rows, failed_rows, sink, bad_file>>
    /\ UNCHANGED fn_vars

\* time.time() reads the same at lines 116 and 178: total_rows is increased,
\* the division of line 184 raises ZeroDivisionError before anything is
\* logged, and the outer except logs it
ReportZeroDivision ==
    /\ pc = "Reporting"
    /\ total_rows' = total_rows + Len(chunk)
    /\ log' = Append(log, [kind |-> "critical", cause |-> "report"])
    /\ pc' = "Finally"
    /\ UNCHANGED <<input, tx, attempts, pos, chunk_idx, chunk, row_i, values, bad_records,
                   success_rows, failed_rows, sink, bad_file>>
    /\ UNCHANGED fn_vars

\* finally: engine.dispose(), then the final report
FinalReport ==
    /\ pc = "Finally"
    /\ log' = Append(log, [kind |-> "summary", total |-> total_rows,
                           success |-> success_rows, failed |-> failed_rows])
    /\ pc' = "Done"
    /\ UNCHANGED <<input, tx, attempts, pos, chunk_idx, chunk, row_i, values, bad_records,
                   total_rows, success_rows, failed_rows, sink, bad_file>>
    /\ UNCHANGED fn_vars

\* time.time() reads the same at lines 108 and 193: the division of line 201
\* raises ZeroDivisionError, which leaves import_data; nothing is logged
FinalReportZeroDivision ==
    /\ pc = "Finally"
    /\ pc' = "Raised"
    /\ UNCHANGED <<input, tx, attempts, pos, chunk_idx, chunk, row_i, values, bad_records,
                   total_rows, success_rows, failed_rows, sink, bad_file, log>>
    /\ UNCHANGED fn_vars

Next ==
    \/ CreateEngine
    \/ CreateEngineFault
    \/ ReadChunk
    \/ StreamExhausted
    \/ StreamFault
    \/ PrepareRow
    \/ SkipWrite
    \/ WriteExecute
    \/ WriteExecuteRaises
    \/ WriteCommitted
    \/ WriteExecuteFault
    \/ WriteCommitFault
    \/ SkipFlush
    \/ FlushBadRecords
    \/ FlushFault
    \/ Report
    \/ ReportZeroDivision
    \/ FinalReport
    \/ FinalReportZeroDivision

Spec == Init /\ [][Next]_vars

\* import_data is one thread that runs until it returns
FairSpec == Spec /\ WF_vars(Next)

\* ------------------------------------------------------------------------
\* One call of validate_coordinate / prepare_polygon on a text made of a
\* few pieces.  import_data does not run in these specifications.
\* ------------------------------------------------------------------------
MaxPieces == 5      \* pieces in a coordinate text
MaxVertices == 5    \* comma-separated tokens in a polygon text

RECURSIVE Concat(_)
Concat(parts) == IF parts = <<>> THEN <<>> ELSE Head(parts) \o Concat(Tail(parts))

\* finite numbers, the non-finite words float() accepts, a word it rejects,
\* and two of the blanks that separate tokens
CoordPieces ==
    { <<"1">>, <<"-","2",".","5">>, <<"n","a","n">>,
      <<"-","I","n","f","i","n","i","t","y">>, <<"x">>, <<" ">>, <<"\f">> }

CoordTexts ==
    { Concat(ps) : ps \in UNION { [1..n -> CoordPieces] : n \in 0..MaxPieces } }

PolyPieces ==
    { <<"1"," ","1">>, <<"2"," ","2">>, <<"[","3"," ","3","]">>,
      <<"\f","1"," ","1">>, <<"x">> }

Wrap(w, body) ==
    CASE w = 0 -> body
      [] w = 1 -> <<"(">> \o body \o <<")">>
      [] w = 2 -> PolygonPrefix \o body \o PolygonSuffix

PolygonTexts ==
    { Wrap(w, Join(ps, ",")) :
        w \in 0..2, ps \in UNION { [1..n -> PolyPieces] : n \in 0..MaxVertices } }

LoaderOff ==
    /\ input = <<>>
    /\ pos = 0
    /\ pc = "Off"
    /\ chunk_idx = -1
    /\ chunk = <<>>
    /\ row_i = 1
    /\ values = <<>>
    /\ bad_records = <<>>
    /\ total_rows = 0
    /\ success_rows = 0
    /\ failed_rows = 0
    /\ sink = <<>>
    /\ tx = <<>>
    /\ bad_file = <<>>
    /\ log = <<>>
    /\ attempts = <<>>

InitValidate ==
    /\ LoaderOff
    /\ fn_pc = "call"
    /\ fn_arg \in CoordTexts
    /\ fn_ret = None

CallValidate ==
    /\ fn_pc = "call"
    /\ fn_ret' = validate_coordinate(fn_arg)
    /\ fn_pc' = "return"
    /\ UNCHANGED fn_arg
    /\ UNCHANGED loader_vars

SpecValidate == InitValidate /\ [][CallValidate]_vars

InitPolygon ==
    /\ LoaderOff
    /\ fn_pc = "call"
    /\ fn_arg \in PolygonTexts
    /\ fn_ret = None

CallPolygon ==
    /\ fn_pc = "call"
    /\ fn_ret' = prepare_polygon(fn_arg)
    /\ fn_pc' = "return"
    /\ UNCHANGED fn_arg
    /\ UNCHANGED loader_vars

SpecPolygon == InitPolygon /\ [][CallPolygon]_vars

\* prepare_polygon called on the WKT text it has just returned
CallPolygonAgain ==
    /\ fn_pc = "return"
    /\ fn_ret.some
    /\ fn_arg' = fn_ret.val
    /\ fn_ret' = prepare_polygon(fn_ret.val)
    /\ fn_pc' = "return2"
    /\ UNCHANGED loader_vars

SpecPolygonTwice == InitPolygon /\ [][CallPolygon \/ CallPolygonAgain]_vars

InitPoint ==
    /\ LoaderOff
    /\ fn_pc = "call"
    /\ fn_arg \in CoordTexts
    /\ fn_ret = None

CallPoint ==
    /\ fn_pc = "call"
    /\ fn_ret' = prepare_point(fn_arg)
    /\ fn_pc' = "return"
    /\ UNCHANGED fn_arg
    /\ UNCHANGED loader_vars

SpecPoint == InitPoint /\ [][CallPoint]_vars

\* ------------------------------------------------------------------------
\* Properties of import_data
\* ------------------------------------------------------------------------
LastLog == IF log = <<>> THEN [kind |-> "none"] ELSE log[Len(log)]

\* the except branch of the batch insert ran for the current chunk
WriteFaulted ==
    pc \in {"Flushing", "Reporting"} /\ LastLog = [kind |-> "error", cause |-> "batch"]

\* the outer except caught a fault of the chunk iterator
StreamFaulted ==
    \E k \in 1..Len(log) : log[k] = [kind |-> "critical", cause |-> "stream"]

\* the outer except caught a fault of the append to bad_polygons.csv
AppendFaulted ==
    \E k \in 1..Len(log) : log[k] = [kind |-> "critical", cause |-> "append"]

Summaries == Cardinality({k \in 1..Len(log) : log[k].kind = "summary"})

\* C1: a chunk whose batch write raises, during the insert or at the commit,
\* leaves success_rows as it was, adds the number of its candidate records
\* to failed_rows, and is followed by its report and the next read.
C1_FaultedWriteCountsOnlyFailures ==
    [][ /\ (pc \in {"Committing", "RollingBack"} /\ WriteFaulted') =>
               /\ success_rows' = success_rows
               /\ failed_rows' = failed_rows + Len(values)
        /\ (pc = "Flushing" /\ WriteFaulted) => pc' = "Reporting"
        /\ (pc = "Reporting" /\ WriteFaulted) => pc' = "Reading" ]_vars

\* C2: a row whose id, pid or deep does not convert to an integer is left
\* out of values, adds exactly 1 to failed_rows and produces no bad_records
\* entry, also when its polygon is present and rejected; the candidates of
\* a chunk are exactly its other rows.
C2_CoercionFailureDropsOnlyThatRow ==
    /\ [][ (pc = "Preparing" /\ ~Coerces(chunk[row_i])) =>
               /\ values' = values
               /\ failed_rows' = failed_rows + 1
               /\ bad_records' = bad_records ]_vars
    /\ [](pc = "Writing" =>
               Len(values) = Cardinality({k \in 1..Len(chunk) : Coerces(chunk[k])}))

\* a chunk of 3 rows whose second row has a malformed deep, after an id
\* and a pid that convert, and a rejected polygon has been prepared: 2
\* candidates, no bad_records entry
C2_Witness ==
    /\ pc = "Writing"
    /\ Len(chunk) = 3
    /\ IntCoerces(chunk[2].id)
    /\ IntCoerces(chunk[2].pid)
    /\ ~IntCoerces(chunk[2].deep)
    /\ IsBadPolygon(chunk[2])
    /\ Coerces(chunk[1])
    /\ Coerces(chunk[3])
    /\ Len(values) = 2
    /\ bad_records = <<>>

\* C3: whatever happens to the append of a chunk's bad_records, the chunk
\* is then reported (and so added to total_rows and followed by the next
\* read) with the batch outcome and the counters as they were.
C3_AppendOutcomeNeverStopsTheRun ==
    [][ pc = "Flushing" =>
            /\ pc' = "Reporting"
            /\ UNCHANGED <<success_rows, failed_rows, sink>> ]_vars

\* C4: after every completed chunk and at the end of the run, every row seen
\* is counted exactly once: total_rows = success_rows + failed_rows, and
\* success_rows is the number of rows committed to the table.
C4_CountersPartitionTheRows ==
    pc \in {"Reading", "Finally", "Done"} =>
        /\ total_rows = success_rows + failed_rows
        /\ success_rows = Len(sink)

\* C5: every run ends, and ends with exactly one final report in the log,
\* whether the input was exhausted or a fault ended the loop.
C5_RunEndsWithOneSummary ==
    /\ <>[](pc = "Done" /\ Summaries = 1)
    /\ [](Summaries <= 1)

\* the for loop is over: import_data is at the finally clause or behind it
LoopLeft == pc \in {"Finally", "Done", "Raised"}

\* C6: a fault of the chunk iterator ends the loop: no chunk is read and no
\* batch insert is attempted any more, nothing is rolled back, and the table
\* and the three counters keep the values they had after the last reported
\* chunk.
C6_StreamFaultKeepsCommittedChunks ==
    /\ [][ StreamFaulted' =>
               /\ UNCHANGED <<sink, tx, attempts, pos, chunk_idx, bad_file>>
               /\ UNCHANGED <<success_rows, failed_rows, total_rows>>
               /\ LoopLeft' ]_vars
    /\ [](StreamFaulted => total_rows = pos /\ tx = <<>>)

\* the iterator faulted in mid-file after a chunk had been committed
C6_Witness ==
    /\ LoopLeft
    /\ StreamFaulted
    /\ 0 < pos
    /\ pos < Len(input)
    /\ sink # <<>>
    /\ success_rows = Len(sink)

\* C7: the rows prepared so far whose id, pid and deep convert are the
\* candidates, in order; such a row with a present polygon that does not
\* normalize is a candidate with polygon None and has exactly one
\* bad_records entry with its id and raw polygon text; the other rows have
\* no entry.
Prepared == SubSeq(chunk, 1, row_i - 1)

C7_RejectedPolygonKeepsTheRow ==
    pc \in {"Preparing", "Writing"} =>
        LET good == SelectSeq(Prepared, Coerces)
            rejected == SelectSeq(good, IsBadPolygon)
        IN  /\ Len(values) = Len(good)
            /\ \A k \in 1..Len(good) :
                   /\ values[k].id = IntOf(good[k].id)
                   /\ IsBadPolygon(good[k]) => ~values[k].polygon.some
                   /\ values[k].polygon.some =>
                          values[k].polygon = prepare_polygon(good[k].polygon.val)
            /\ Len(bad_records) = Len(rejected)
            /\ \A k \in 1..Len(rejected) :
                   /\ bad_records[k].id = rejected[k].id
                   /\ bad_records[k].data = rejected[k].polygon

\* a chunk with a rejected polygon and an accepted one has been prepared
C7_Witness ==
    /\ pc = "Writing"
    /\ Len(bad_records) = 1
    /\ \E k \in 1..Len(values) :
           /\ values[k].id = IntOf(bad_records[1].id)
           /\ ~values[k].polygon.some
    /\ \E k \in 1..Len(values) : values[k].polygon.some

\* ------------------------------------------------------------------------
\* Properties of validate_coordinate and prepare_polygon
\* ------------------------------------------------------------------------
\* float(tok) returns a finite number
IsFiniteNumber(tok) ==
    FloatParses(tok) /\ Lower(Unsigned(tok)) \notin NonFiniteWords

\* C8: validate_coordinate(t) is true if and only if t splits on
\* whitespace into exactly two tokens that both parse as finite numbers.
C8_ValidIffTwoFiniteNumbers ==
    fn_pc = "return" =>
        LET toks == SplitWs(fn_arg)
        IN  fn_ret <=> (Len(toks) = 2 /\ IsFiniteNumber(toks[1]) /\ IsFiniteNumber(toks[2]))

\* the coordinates of the ring of a WKT polygon text
RingOf(wkt) ==
    SplitOn(SubSeq(wkt, Len(PolygonPrefix) + 1, Len(wkt) - Len(PolygonSuffix)), ",")

IsPolygonWkt(wkt) ==
    /\ Len(wkt) >= Len(PolygonPrefix) + Len(PolygonSuffix)
    /\ SubSeq(wkt, 1, Len(PolygonPrefix)) = PolygonPrefix
    /\ SubSeq(wkt, Len(wkt) - Len(PolygonSuffix) + 1, Len(wkt)) = PolygonSuffix

\* the comma-separated tokens of a text, brackets removed and each
\* trimmed, that pass the validator, in their order
Survivors(text) ==
    LET toks == SplitOn(CleanStr(text), ",")
    IN  SelectSeq([k \in 1..Len(toks) |-> Strip(toks[k])], validate_coordinate)

\* C9: prepare_polygon returns None or a ring of at least 4 coordinates
\* whose first and last are the same text and that all pass the validator;
\* it returns None when fewer than 3 coordinates survive and when fewer
\* than 4 remain after the closing.
C9_RingIsClosedAndValid ==
    fn_pc = "return" =>
        LET c == Survivors(fn_arg)
        IN  /\ fn_ret.some =>
                   /\ IsPolygonWkt(fn_ret.val)
                   /\ LET ring == RingOf(fn_ret.val)
                      IN  /\ Len(ring) >= 4
                          /\ ring[1] = ring[Len(ring)]
                          /\ \A k \in 1..Len(ring) : validate_coordinate(ring[k])
            /\ Len(c) < 3 => ~fn_ret.some
            /\ (Len(c) = 3 /\ c[1] = c[3]) => ~fn_ret.some

\* three coordinates survive, the first and the last alike: None
C9_Witness ==
    /\ fn_pc = "return"
    /\ Len(Survivors(fn_arg)) = 3
    /\ Survivors(fn_arg)[1] = Survivors(fn_arg)[3]
    /\ ~fn_ret.some

\* C10: with n >= 3 surviving coordinates c1..cn, the result is the ring
\* c1..cn,c1 when c1 and cn differ, and the ring c1..cn itself when they
\* are the same text and n >= 4; the coordinates keep their text.
C10_RingIsSurvivorsClosedOnce ==
    fn_pc = "return" =>
        LET c == Survivors(fn_arg)
            n == Len(c)
        IN  /\ (n >= 3 /\ c[1] # c[n]) =>
                   /\ fn_ret.some
                   /\ IsPolygonWkt(fn_ret.val)
                   /\ RingOf(fn_ret.val) = Append(c, c[1])
            /\ (n >= 4 /\ c[1] = c[n]) =>
                   /\ fn_ret.some
                   /\ IsPolygonWkt(fn_ret.val)
                   /\ RingOf(fn_ret.val) = c

\* a text with a discarded token and a ring that is closed already
C10_Witness ==
    /\ fn_pc = "return"
    /\ Len(SplitOn(CleanStr(fn_arg), ",")) > 4
    /\ Len(Survivors(fn_arg)) = 4
    /\ Survivors(fn_arg)[1] = Survivors(fn_arg)[4]
    /\ fn_ret.some
    /\ RingOf(fn_ret.val) = Survivors(fn_arg)


\* the vertices of a closed ring, the closing copy of the first left out
CycleOf(ring) == SubSeq(ring, 1, Len(ring) - 1)

\* the same closed cyclic sequence of vertices, from any starting vertex
SameCycle(r1, r2) ==
    LET a == CycleOf(r1)
        b == CycleOf(r2)
        m == Len(a)
    IN  /\ Len(b) = m
        /\ \E s \in 0..(m - 1) :
               \A k \in 1..m : b[k] = a[((k - 1 + s) % m) + 1]

\* C11 as stated: prepare_polygon applied to a WKT polygon w it returned
\* returns a polygon again, whose ring is the same closed cyclic sequence
\* of vertices as the ring of w.
C11_SecondPassGivesSameCycle ==
    fn_pc = "return2" =>
        /\ fn_ret.some
        /\ IsPolygonWkt(fn_ret.val)
        /\ SameCycle(RingOf(fn_arg), RingOf(fn_ret.val))

\* C11: when the second coordinate of the ring of w differs from its first,
\* prepare_polygon(w) returns a polygon whose ring is the ring of w started
\* at its second vertex, and so the same closed cyclic sequence.
C11_SecondPassRotatesTheRing ==
    fn_pc = "return2" =>
        LET ring == RingOf(fn_arg)
        IN  ring[1] # ring[2] =>
                /\ fn_ret.some
                /\ IsPolygonWkt(fn_ret.val)
                /\ RingOf(fn_ret.val) = Append(Tail(CycleOf(ring)), ring[1]) \o <<ring[2]>>
                /\ SameCycle(ring, RingOf(fn_ret.val))

\* a returned ring has gone through prepare_polygon again and starts at
\* another vertex
C11_Witness ==
    /\ fn_pc = "return2"
    /\ fn_ret.some
    /\ RingOf(fn_arg)[1] # RingOf(fn_arg)[2]
    /\ RingOf(fn_ret.val)[1] = RingOf(fn_arg)[2]
    /\ RingOf(fn_ret.val) # RingOf(fn_arg)


\* ------------------------------------------------------------------------
\* Properties of the progress lines, the order of the steps and the windows
\* ------------------------------------------------------------------------
ProgressLines == SelectSeq(log, LAMBDA e : e.kind = "progress")

RECURSIVE SumOk(_)
SumOk(lines) == IF lines = <<>> THEN 0 ELSE Head(lines).ok + SumOk(Tail(lines))

RECURSIVE SumFailed(_)
SumFailed(lines) ==
    IF lines = <<>> THEN 0 ELSE Head(lines).failed + SumFailed(Tail(lines))

\* C12: the succeeded and failed counts of each progress line are what its
\* chunk added to success_rows and to failed_rows, a chunk whose batch write
\* faulted included: after every report the counts of the progress lines so
\* far add up to the two counters.
C12_ProgressLineMatchesCounters ==
    pc = "Reading" =>
        /\ SumOk(ProgressLines) = success_rows
        /\ SumFailed(ProgressLines) = failed_rows


\* a step of the batch write: the insert is attempted, the transaction or
\* the table changes, or the except branch of the insert logs
WriteStep ==
    \/ attempts' # attempts
    \/ tx' # tx
    \/ sink' # sink
    \/ /\ Len(log') = Len(log) + 1
       /\ log'[Len(log')] = [kind |-> "error", cause |-> "batch"]

\* a progress line is logged in this step
ReportStep ==
    /\ Len(log') = Len(log) + 1
    /\ log'[Len(log')].kind = "progress"

\* C13: the chunks are processed one after another, each in the order read,
\* prepare, write, report: a chunk is read only when every chunk read before
\* has its progress line, the batch write starts only when every row of the
\* chunk has been prepared, and the append to bad_polygons.csv and the
\* progress line come after the batch write.
C13_StepsOfAChunkInOrder ==
    [][ /\ chunk_idx' # chunk_idx =>
               /\ chunk_idx' = chunk_idx + 1
               /\ Len(ProgressLines) = chunk_idx + 1
        /\ WriteStep =>
               /\ pc \in {"Writing", "Committing", "RollingBack"}
               /\ row_i = Len(chunk) + 1
               /\ Len(ProgressLines) = chunk_idx
               /\ pc' \in {"Committing", "RollingBack", "Flushing"}
        /\ bad_file' # bad_file =>
               /\ pc = "Flushing"
               /\ Len(ProgressLines) = chunk_idx
        /\ ReportStep =>
               /\ pc = "Reporting"
               /\ Len(ProgressLines) = chunk_idx
               /\ log'[Len(log')].batch = chunk_idx + 1
        /\ pc' # pc =>
               <<pc, pc'>> \in { <<"Connecting", "Reading">>, <<"Connecting", "Raised">>,
                                 <<"Reading", "Preparing">>, <<"Reading", "Finally">>,
                                 <<"Preparing", "Writing">>, <<"Writing", "Flushing">>,
                                 <<"Writing", "Committing">>, <<"Writing", "RollingBack">>,
                                 <<"Committing", "Flushing">>, <<"RollingBack", "Flushing">>,
                                 <<"Flushing", "Reporting">>, <<"Flushing", "Finally">>,
                                 <<"Reporting", "Reading">>, <<"Reporting", "Finally">>,
                                 <<"Finally", "Done">>, <<"Finally", "Raised">> } ]_vars

\* the second chunk, of one row, has been written after the first chunk, of
\* three rows, was reported
C13_Witness ==
    /\ chunk_idx = 1
    /\ pc = "Flushing"
    /\ Len(ProgressLines) = 1
    /\ ProgressLines[1].batch = 1
    /\ ProgressLines[1].ok + ProgressLines[1].failed = CHUNKSIZE
    /\ bad_file # <<>>
    /\ sink # <<>>


\* the rows of chunk number k of the file
WindowRows(k) == SubSeq(input, k * CHUNKSIZE + 1, Min((k + 1) * CHUNKSIZE, Len(input)))

RECURSIVE RecordsOf(_)
\* the records of the rows of rows whose id, pid and deep convert, in row order
RecordsOf(rows) ==
    IF rows = <<>> THEN <<>>
    ELSE (IF RowOutcome[Head(rows)].coerces
          THEN <<RowOutcome[Head(rows)].record>> ELSE <<>>) \o RecordsOf(Tail(rows))

IsPrefix(s, t) == Len(s) <= Len(t) /\ SubSeq(t, 1, Len(s)) = s

\* the entries of attempts made for chunk number k
AttemptsOf(k) == SelectSeq(attempts, LAMBDA a : a.batch = k)

\* the chunks whose insert block import_data has entered or passed
WrittenChunks == IF pc \in {"Preparing", "Writing"} THEN 0..(chunk_idx - 1) ELSE 0..chunk_idx

RECURSIVE IsSomeBatches(_, _)
\* no element of s is in s twice
NoRepeat(s) == \A i, j \in 1..Len(s) : s[i] = s[j] => i = j

RECURSIVE Submitted(_)
\* the records handed to the inserts of batches, in order
Submitted(batches) ==
    IF batches = <<>> THEN <<>> ELSE Head(batches).rows \o Submitted(Tail(batches))

\* rows is the concatenation of some of the batches, in order, each whole
IsSomeBatches(rows, batches) ==
    IF batches = <<>> THEN rows = <<>>
    ELSE \/ IsSomeBatches(rows, Tail(batches))
         \/ LET b == Head(batches).rows
            IN  /\ Len(b) <= Len(rows)
                /\ SubSeq(rows, 1, Len(b)) = b
                /\ IsSomeBatches(SubSeq(rows, Len(b) + 1, Len(rows)), Tail(batches))

\* C14: a chunk whose insert block is entered or behind has had exactly one
\* batch insert when some row of it converted and none otherwise, that
\* insert carried exactly the records of the chunk's converted rows, a chunk
\* still being prepared has had none, and no record was handed to an insert
\* twice; the rows a faulted insert left in its transaction, some first rows
\* of the batch, never reach the table, which holds, of every insert, all
\* its rows or none.
C14_OneWholeBatchPerChunk ==
    pc # "Off" =>
        /\ \A k \in WrittenChunks :
               LET records == RecordsOf(WindowRows(k))
               IN  IF records = <<>>
                   THEN AttemptsOf(k) = <<>>
                   ELSE AttemptsOf(k) = << [batch |-> k, rows |-> records] >>
        /\ \A i \in 1..Len(attempts) : attempts[i].batch \in WrittenChunks
        /\ NoRepeat(Submitted(attempts))
        /\ pc = "Committing" => tx = values
        /\ pc = "RollingBack" => IsPrefix(tx, values)
        /\ pc \notin {"Committing", "RollingBack"} => tx = <<>>
        /\ IsSomeBatches(sink, attempts)
        /\ Len(sink) <= pos

\* the insert of a chunk raised with some but not all of its records in the
\* transaction, which is about to be rolled back
C14_WitnessRollback ==
    /\ pc = "RollingBack"
    /\ Len(attempts) = 1
    /\ 0 < Len(tx)
    /\ Len(tx) < Len(values)
    /\ sink = <<>>

\* the first chunk's insert faulted and was not repeated, the second chunk's
\* insert committed, and the table holds the second batch alone
C14_Witness ==
    /\ pc = "Done"
    /\ Len(attempts) = 2
    /\ \E i \in 1..Len(log) : log[i] = [kind |-> "error", cause |-> "batch"]
    /\ attempts[1].batch = 0
    /\ attempts[2].batch = 1
    /\ sink = attempts[2].rows
    /\ Len(attempts[1].rows) > 1

\* a chunk none of whose rows converted passed the insert block with no insert
C14_WitnessNoCandidates ==
    /\ pc = "Reporting"
    /\ chunk_idx = 1
    /\ values = <<>>
    /\ AttemptsOf(1) = <<>>
    /\ Len(attempts) = 1


\* the iterrows loop handles one row in this step
PrepareStep == row_i' # row_i /\ chunk_idx' = chunk_idx

\* the run ended with the chunk iterator exhausted: the loop delivered a
\* chunk (no file of Inputs is empty) and was left with no exception
ExhaustedNormally ==
    /\ pc \in {"Finally", "Done", "Raised"}
    /\ chunk_idx >= 0
    /\ \A i \in 1..Len(log) : log[i].kind # "critical"

\* C15: the chunks partition the file: each chunk is the slice of at most
\* CHUNKSIZE rows that follows the rows delivered before, full unless it is
\* the last, each row of a chunk passes the iterrows loop once, in row
\* order, and when the iterator is exhausted total_rows is the number of
\* rows of the file.
C15_ChunksPartitionTheFile ==
    /\ [][ /\ input' = input
           /\ pos' # pos => chunk_idx' = chunk_idx + 1
           /\ chunk_idx' # chunk_idx =>
                  /\ pos < pos'
                  /\ pos' <= pos + CHUNKSIZE
                  /\ pos' < Len(input) => pos' = pos + CHUNKSIZE
                  /\ chunk' = SubSeq(input, pos + 1, pos')
                  /\ row_i' = 1
           /\ chunk_idx' = chunk_idx => chunk' = chunk
           /\ PrepareStep =>
                  /\ row_i <= Len(chunk)
                  /\ row_i' = row_i + 1
                  /\ IF RowOutcome[chunk[row_i]].coerces
                     THEN /\ values' = Append(values, RowOutcome[chunk[row_i]].record)
                          /\ failed_rows' = failed_rows
                     ELSE /\ values' = values
                          /\ failed_rows' = failed_rows + 1
           /\ (pc = "Preparing" /\ pc' # "Preparing") => row_i' = Len(chunk) + 1 ]_vars
    /\ [](pc \in {"Preparing", "Writing", "Committing", "RollingBack",
                   "Flushing", "Reporting"} =>
              /\ Len(chunk) \in 1..CHUNKSIZE
              /\ chunk = SubSeq(input, pos - Len(chunk) + 1, pos)
              /\ pos = Min((chunk_idx + 1) * CHUNKSIZE, Len(input)))
    /\ [](ExhaustedNormally => pos = Len(input) /\ total_rows = Len(input))

\* a file of four rows was read as a chunk of three and a chunk of one, and
\* the iterator is exhausted
C15_Witness ==
    /\ pc = "Done"
    /\ ExhaustedNormally
    /\ Len(input) = CHUNKSIZE + 1
    /\ chunk_idx = 1
    /\ chunk = <<input[CHUNKSIZE + 1]>>
    /\ total_rows = CHUNKSIZE + 1


RECURSIVE RejectedLines(_)
\* the lines of the rows of rows that convert and whose polygon is given and
\* does not normalize, in row order
RejectedLines(rows) ==
    IF rows = <<>> THEN <<>>
    ELSE (IF RowOutcome[Head(rows)].coerces /\ RowOutcome[Head(rows)].bad_polygon
          THEN <<BadLine(BadRecord(Head(rows)))>> ELSE <<>>) \o RejectedLines(Tail(rows))

\* the positions of import_data before the append of the current chunk
BeforeAppend == {"Connecting", "Preparing", "Writing", "Committing", "RollingBack", "Flushing"}

\* C16 as stated: bad_polygons.csv only grows at its end, and the lines of
\* a chunk are written between its batch insert and its progress line, one
\* whole line per rejected polygon and in row order, whether the insert
\* committed or faulted: once the append of a chunk is behind, the file is
\* the lines of all rows read so far.
C16_EveryEntryIsAppendedWhole ==
    /\ [][ /\ IsPrefix(bad_file, bad_file')
           /\ bad_file' # bad_file => pc = "Flushing" ]_vars
    /\ [](pc \in BeforeAppend =>
              bad_file = RejectedLines(SubSeq(input, 1, pos - Len(chunk))))
    /\ [](pc \notin BeforeAppend /\ pc # "Off" =>
              bad_file = RejectedLines(SubSeq(input, 1, pos)))

\* C16: bad_polygons.csv only grows at its end; the lines of a
\* chunk are written between its batch insert and its progress line, one per
\* rejected polygon and in row order, whether the insert committed or
\* faulted, so that once a chunk is reported the file is the lines of all
\* rows read so far, in file order; an append that raises leaves the lines
\* of the earlier chunks, some but not all of the chunk's lines, in row
\* order, and possibly a piece of the next one.
C16_RejectionFileGrowsInRowOrder ==
    /\ [][ /\ IsPrefix(bad_file, bad_file')
           /\ bad_file' # bad_file => pc = "Flushing" ]_vars
    /\ [](pc \in BeforeAppend =>
              bad_file = RejectedLines(SubSeq(input, 1, pos - Len(chunk))))
    /\ [](pc \in {"Reporting", "Reading"} =>
              bad_file = RejectedLines(SubSeq(input, 1, pos)))
    /\ [](pc \in {"Finally", "Done", "Raised"} =>
              LET lines == RejectedLines(SubSeq(input, 1, pos))
                  earlier == Len(RejectedLines(SubSeq(input, 1, pos - Len(chunk))))
              IN  IF AppendFaulted
                  THEN \E k \in earlier..(Len(lines) - 1) :
                           \/ bad_file = SubSeq(lines, 1, k)
                           \/ bad_file = Append(SubSeq(lines, 1, k), Fragment(lines[k + 1]))
                  ELSE bad_file = lines)

\* the first chunk's insert faulted and its two different lines are in the
\* file in row order, followed by the line of the second chunk, whose insert
\* committed
C16_Witness ==
    /\ pc = "Reporting"
    /\ chunk_idx = 1
    /\ Len(bad_file) = 3
    /\ bad_file[1] # bad_file[2]
    /\ bad_file[3] = BadLine(BadRecord(chunk[1]))
    /\ log[1] = [kind |-> "error", cause |-> "batch"]
    /\ sink = values
    /\ values # <<>>


\* ------------------------------------------------------------------------
\* Properties of prepare_point
\* ------------------------------------------------------------------------

\* C17: prepare_point returns None for the empty text and for a text that
\* validate_coordinate rejects, and otherwise POINT(...) around the text
\* with its leading and trailing whitespace removed.
C17_PointIsBuiltFromTrimmedText ==
    (pc = "Off" /\ fn_pc = "return") =>
        IF fn_arg = <<>> \/ ~validate_coordinate(fn_arg)
        THEN fn_ret = None
        ELSE fn_ret = Some(PointPrefix \o Strip(fn_arg) \o PointSuffix)

====
